---- MODULE Spec2Model ----
(***************************************************************************)
(* Model of src/extract_outline.py: the layout-based outline extraction    *)
(* pipeline (extract_pdf_outline) and the batch driver (main).             *)
(*                                                                         *)
(* Conventions                                                             *)
(*  - A text (line text, font name, file name) is a sequence of            *)
(*    one-character strings, so that the string functions of the source    *)
(*    (split, strip, re.sub, istitle, ...) are computed, not assumed.      *)
(*  - Lengths (font sizes, bbox coordinates, page dimensions) are floats   *)
(*    in the source; here they are integers counting HALF points, so that  *)
(*    round() has something to round.  Pt(n) is n points.                  *)
(*  - A heading score is a multiple of 0.5 in the source; the model keeps  *)
(*    twice the score.  body_text_size holds twice the median.             *)
(*  - A title score is kept as a fraction <<numerator, denominator>>.      *)
(***************************************************************************)
EXTENDS Integers, Sequences, FiniteSets, TLC

\* ------------------------------------------------------------------------
\* Characters and texts
\* ------------------------------------------------------------------------
UpperSeq ==
  <<"A","B","C","D","E","F","G","H","I","J","K","L","M",
    "N","O","P","Q","R","S","T","U","V","W","X","Y","Z">>

LowerSeq ==
  <<"a","b","c","d","e","f","g","h","i","j","k","l","m",
    "n","o","p","q","r","s","t","u","v","w","x","y","z">>

DigitSeq ==
  <<"0","1","2","3","4","5","6","7","8","9">>

Range(s) ==
  { s[i] : i \in DOMAIN s }

UpperCase ==
  Range(UpperSeq)

LowerCase ==
  Range(LowerSeq)

Digit ==
  Range(DigitSeq)

Whitespace ==
  {" "}

Abs(n) ==
  IF n < 0 THEN -n ELSE n

\* str.lower() on one character
LowerChar(c) ==
  IF c \in UpperCase
  THEN LowerSeq[CHOOSE i \in DOMAIN UpperSeq : UpperSeq[i] = c]
  ELSE c

\* str.lower()
Lower(t) ==
  [i \in DOMAIN t |-> LowerChar(t[i])]

\* t[i:].startswith(pat), i is 1-based
HasSubAt(t, i, pat) ==
  /\ i >= 1
  /\ i + Len(pat) - 1 <= Len(t)
  /\ \A k \in 1..Len(pat) : t[i + k - 1] = pat[k]

\* pat in t
Contains(t, pat) ==
  \E i \in 1..Len(t) : HasSubAt(t, i, pat)

\* str.endswith
EndsWith(t, pat) ==
  /\ Len(t) >= Len(pat)
  /\ HasSubAt(t, Len(t) - Len(pat) + 1, pat)

\* a non-whitespace character at position i
NonSpaceAt(t, i) ==
  /\ i >= 1
  /\ i <= Len(t)
  /\ t[i] \notin Whitespace

\* str.strip()
Strip(t) ==
  IF \A i \in DOMAIN t : t[i] \in Whitespace
  THEN <<>>
  ELSE LET first == CHOOSE i \in DOMAIN t :
                      /\ t[i] \notin Whitespace
                      /\ \A j \in 1..(i-1) : t[j] \in Whitespace
           last  == CHOOSE i \in DOMAIN t :
                      /\ t[i] \notin Whitespace
                      /\ \A j \in (i+1)..Len(t) : t[j] \in Whitespace
       IN  SubSeq(t, first, last)

\* " ".join(texts)
RECURSIVE JoinSpace(_)
JoinSpace(texts) ==
  IF Len(texts) = 0 THEN <<>>
  ELSE IF Len(texts) = 1 THEN texts[1]
  ELSE texts[1] \o <<" ">> \o JoinSpace(Tail(texts))

\* len(text.split()): the number of maximal runs of non-whitespace
WordCount(t) ==
  Cardinality({ i \in DOMAIN t :
                  /\ t[i] \notin Whitespace
                  /\ (i = 1 \/ t[i-1] \in Whitespace) })

\* the re.sub of the noise filter: every maximal run of digits becomes one '#'
NormalizeDigits(t) ==
  LET starts(i) == ~ (t[i] \in Digit /\ i > 1 /\ t[i-1] \in Digit)
      kept == SelectSeq([i \in DOMAIN t |-> i], starts)
  IN  [k \in DOMAIN kept |-> IF t[kept[k]] \in Digit THEN "#" ELSE t[kept[k]]]

\* str.istitle(): upper-case letters only after uncased characters,
\* lower-case letters only after cased ones, at least one cased character
IsTitle(t) ==
  /\ \E i \in DOMAIN t : t[i] \in UpperCase \cup LowerCase
  /\ \A i \in DOMAIN t :
       /\ t[i] \in UpperCase =>
            (i = 1 \/ t[i-1] \notin UpperCase \cup LowerCase)
       /\ t[i] \in LowerCase =>
            (i > 1 /\ t[i-1] \in UpperCase \cup LowerCase)

\* str.isupper(): no lower-case letter and at least one upper-case letter
IsUpper(t) ==
  /\ \E i \in DOMAIN t : t[i] \in UpperCase
  /\ \A i \in DOMAIN t : t[i] \notin LowerCase

\* Two characters the texts of the model name rather than spell
Bullet ==
  "<bullet>"

Backquote ==
  "<backquote>"

\* the first re.match of get_heading_score, with alternatives
\*   (1) start, whitespace*, bullet
\*   (2) start, whitespace*, '|', start, whitespace, '-'
\*   (3) backquote
\* Alternative (2) asks for the start of the text after a character was
\* consumed and so matches nothing; re.match anchors (3) at the start.
MatchesListMarker(t) ==
  \/ \E k \in 0..Len(t) :
       /\ k + 1 <= Len(t)
       /\ \A j \in 1..k : t[j] \in Whitespace
       /\ t[k+1] = Bullet
  \/ (Len(t) >= 1 /\ t[1] = Backquote)

\* the re.search of get_heading_score: http:// or https:// or www. followed
\* by a non-space character, or a text ending in .git after a non-space one
SearchesUrl(t) ==
  \/ \E i \in 1..Len(t) :
       \/ (HasSubAt(t, i, <<"h","t","t","p",":","/","/">>) /\ NonSpaceAt(t, i + 7))
       \/ (HasSubAt(t, i, <<"h","t","t","p","s",":","/","/">>) /\ NonSpaceAt(t, i + 8))
       \/ (HasSubAt(t, i, <<"w","w","w",".">>) /\ NonSpaceAt(t, i + 4))
  \/ (EndsWith(t, <<".","g","i","t">>) /\ NonSpaceAt(t, Len(t) - 4))

\* the numbering re.match of get_heading_score: digits, a dot, whitespace
MatchesNumbering(t) ==
  \E k \in 1..Len(t) :
    /\ k + 2 <= Len(t)
    /\ \A j \in 1..k : t[j] \in Digit
    /\ t[k+1] = "."
    /\ t[k+2] \in Whitespace

\* 'bold' in font.lower()
IsBoldFont(font) ==
  Contains(Lower(font), <<"b","o","l","d">>)

\* ------------------------------------------------------------------------
\* Numbers
\* ------------------------------------------------------------------------
\* n points, in half points
Pt(n) ==
  2 * n

\* round(x) of Python 3 for x = h/2: half-way cases go to the even integer
Round(h) ==
  IF h % 2 = 0 THEN h \div 2
  ELSE LET k == (h - 1) \div 2
       IN  IF k % 2 = 0 THEN k ELSE k + 1

\* tuple(map(round, bbox))
RoundBBox(bbox) ==
  [i \in DOMAIN bbox |-> Round(bbox[i])]

\* sorted(values) of a non-empty sequence of integers, as a sequence
Sorted(s) ==
  LET \* the number of elements that come before s[i] in the sorted order
      rank(i) == Cardinality({ j \in DOMAIN s :
                    s[j] < s[i] \/ (s[j] = s[i] /\ j < i) })
  IN  [r \in DOMAIN s |-> s[CHOOSE i \in DOMAIN s : rank(i) = r - 1]]

\* 2 * statistics.median(values): the middle value, or the mean of the two
\* middle values, of a non-empty sequence
Median2(s) ==
  LET srt == Sorted(s)
      n   == Len(s)
  IN  IF n % 2 = 1 THEN 2 * srt[(n + 1) \div 2]
      ELSE srt[n \div 2] + srt[n \div 2 + 1]

\* concatenation of a sequence of sequences
RECURSIVE Concat(_)
Concat(ss) ==
  IF Len(ss) = 0 THEN <<>> ELSE ss[1] \o Concat(Tail(ss))

\* statistics.mode(values) of a non-empty sequence: the most frequent value,
\* the one met first among equally frequent ones
Mode(s) ==
  LET count(v) == Cardinality({ i \in DOMAIN s : s[i] = v })
      best == CHOOSE i \in DOMAIN s :
                /\ \A j \in DOMAIN s : count(s[j]) <= count(s[i])
                /\ \A j \in 1..(i-1) : count(s[j]) < count(s[i])
  IN  s[best]

\* ------------------------------------------------------------------------
\* CONFIG (fractions as percentages)
\* ------------------------------------------------------------------------
header_threshold ==
  15

footer_threshold ==
  85

min_heading_score ==
  3

font_size_ratio ==
  100

min_body_text_words ==
  6

title_page_limit ==
  2

\* ------------------------------------------------------------------------
\* get_document_structure
\* ------------------------------------------------------------------------
\* What fitz does with a file, by the kind of its content: it cannot open
\* it ("unreadable"), it opens it and fails while a page is read ("broken"),
\* or it yields the raw pages ("pages").
UnreadableFile ==
  [kind |-> "unreadable", pages |-> <<>>]

BrokenFile ==
  [kind |-> "broken", pages |-> <<>>]

RawDoc(pages) ==
  [kind |-> "pages", pages |-> pages]

\* line_text = " ".join(s.get("text", "") for s in spans).strip()
LineText(spans) ==
  Strip(JoinSpace([i \in DOMAIN spans |-> spans[i].text]))

\* the lines of a raw block that have spans and a non-empty text
CleanLines(rawLines) ==
  LET keep(l) == Len(l.spans) > 0 /\ Len(LineText(l.spans)) > 0
      kept == SelectSeq(rawLines, keep)
  IN  [i \in DOMAIN kept |->
         [text |-> LineText(kept[i].spans),
          bbox |-> kept[i].bbox,
          spans |-> kept[i].spans]]

\* the text blocks (type 0) of a raw page that keep at least one line
CleanBlocks(rawBlocks) ==
  LET keep(b) == b.type = 0 /\ Len(CleanLines(b.lines)) > 0
      kept == SelectSeq(rawBlocks, keep)
  IN  [i \in DOMAIN kept |->
         [bbox |-> kept[i].bbox, lines |-> CleanLines(kept[i].lines)]]

\* a faulty variant of get_document_structure that numbers the pages from 0
GetDocumentStructureFromZero(content) ==
  IF content.kind = "unreadable" THEN [status |-> "none", pages |-> <<>>]
  ELSE IF content.kind = "broken" THEN [status |-> "raised", pages |-> <<>>]
  ELSE [status |-> "ok",
        pages |-> [i \in DOMAIN content.pages |->
          [page_num |-> i - 1,
           page_width |-> content.pages[i].page_width,
           page_height |-> content.pages[i].page_height,
           blocks |-> CleanBlocks(content.pages[i].blocks)]]]

\* status "none": fitz.open raised and None is returned; "raised": an
\* exception leaves the function (the page loop is outside the try);
\* "ok": pages is the Document Structure
GetDocumentStructure(content) ==
  IF content.kind = "unreadable" THEN [status |-> "none", pages |-> <<>>]
  ELSE IF content.kind = "broken" THEN [status |-> "raised", pages |-> <<>>]
  ELSE [status |-> "ok",
        pages |-> [i \in DOMAIN content.pages |->
          [page_num |-> i,
           page_width |-> content.pages[i].page_width,
           page_height |-> content.pages[i].page_height,
           blocks |-> CleanBlocks(content.pages[i].blocks)]]]

\* ------------------------------------------------------------------------
\* Walking a Document Structure
\* ------------------------------------------------------------------------
\* (line['text'], tuple(map(round, line['bbox'])))
LineId(line) ==
  <<line.text, RoundBBox(line.bbox)>>

\* the places <<page index, block index, line index>> of all lines, in the
\* order of the three nested loops over pages, blocks and lines
Positions(doc) ==
  Concat([p \in DOMAIN doc |->
    Concat([b \in DOMAIN doc[p].blocks |->
      [l \in DOMAIN doc[p].blocks[b].lines |-> <<p, b, l>>]])])

LineAt(doc, pos) ==
  doc[pos[1]].blocks[pos[2]].lines[pos[3]]

BlockAt(doc, pos) ==
  doc[pos[1]].blocks[pos[2]]

\* any('bold' in s['font'].lower() for s in spans)
AnyBold(spans) ==
  \E i \in DOMAIN spans : IsBoldFont(spans[i].font)

\* a faulty variant of the test of line 147 that only asks for a page
HasTextAnyPage(doc) ==
  Len(doc) > 0

\* any(block['lines'] for page in doc_structure for block in page['blocks'])
HasText(doc) ==
  \E p \in DOMAIN doc : \E b \in DOMAIN doc[p].blocks :
    Len(doc[p].blocks[b].lines) > 0

\* ------------------------------------------------------------------------
\* identify_and_filter_content
\* ------------------------------------------------------------------------
IsHeader(block, page) ==
  block.bbox[4] * 100 < page.page_height * header_threshold

IsFooter(block, page) ==
  block.bbox[2] * 100 > page.page_height * footer_threshold

\* potential_hf_lines after the loop of lines 58-66, as the set of the pairs
\* <<normalized text, page number>>: the lines of fewer than 8 words in a
\* header or footer block of a page after the first
PotentialHfLines(doc) ==
  LET positions == Positions(doc)
      inBand(pos) == /\ pos[1] >= 2
                     /\ \/ IsHeader(BlockAt(doc, pos), doc[pos[1]])
                        \/ IsFooter(BlockAt(doc, pos), doc[pos[1]])
                     /\ WordCount(NormalizeDigits(LineAt(doc, pos).text)) < 8
  IN  { <<NormalizeDigits(LineAt(doc, positions[i]).text), doc[positions[i][1]].page_num>> :
          i \in { j \in DOMAIN positions : inBand(positions[j]) } }

\* set(pages) for one key of potential_hf_lines
PotentialHfPages(potential_hf_lines, key) ==
  { t[2] : t \in { u \in potential_hf_lines : u[1] = key } }

\* the test of line 70
IsRepeating(num_pages, pages) ==
  \/ Cardinality(pages) > 2
  \/ (num_pages > 5 /\ 2 * Cardinality(pages) > num_pages)

IdentifyAndFilterContent(doc) ==
  LET positions == Positions(doc)
      potential_hf_lines == PotentialHfLines(doc)
      hit(pos) == LET key == NormalizeDigits(LineAt(doc, pos).text)
                      pages == PotentialHfPages(potential_hf_lines, key)
                  IN  /\ pages # {}
                      /\ IsRepeating(Len(doc), pages)
                      /\ doc[pos[1]].page_num \in pages
  IN  { LineId(LineAt(doc, positions[i])) :
          i \in { j \in DOMAIN positions : hit(positions[j]) } }

\* ------------------------------------------------------------------------
\* find_title_by_layout
\* ------------------------------------------------------------------------
\* the places <<page index, block index>> of the blocks of the first
\* title_page_limit pages, in loop order
TitleBlocks(doc) ==
  Concat([p \in 1..(IF Len(doc) < title_page_limit THEN Len(doc) ELSE title_page_limit) |->
    [b \in DOMAIN doc[p].blocks |-> <<p, b>>]])

\* a faulty variant of the candidate test without the position guard of
\* line 86
IsTitleCandidateAnywhere(doc, ignored, pb) ==
  LET page == doc[pb[1]]
      block == page.blocks[pb[2]]
  IN  /\ \A l \in DOMAIN block.lines : LineId(block.lines[l]) \notin ignored
      /\ 1 <= Len(block.lines)
      /\ Len(block.lines) <= 4
      /\ Len(JoinSpace([l \in DOMAIN block.lines |-> block.lines[l].text])) > 0

\* a faulty variant of the candidate test that admits blocks of 5 lines
IsTitleCandidateFiveLines(doc, ignored, pb) ==
  LET page == doc[pb[1]]
      block == page.blocks[pb[2]]
  IN  /\ \A l \in DOMAIN block.lines : LineId(block.lines[l]) \notin ignored
      /\ 1 <= Len(block.lines)
      /\ Len(block.lines) <= 5
      /\ ~ (block.bbox[2] * 10 > page.page_height * 4)
      /\ Len(JoinSpace([l \in DOMAIN block.lines |-> block.lines[l].text])) > 0

\* the two guards of lines 84-87 and the one of line 90
IsTitleCandidate(doc, ignored, pb) ==
  LET page == doc[pb[1]]
      block == page.blocks[pb[2]]
  IN  /\ \A l \in DOMAIN block.lines : LineId(block.lines[l]) \notin ignored
      /\ 1 <= Len(block.lines)
      /\ Len(block.lines) <= 4
      /\ ~ (block.bbox[2] * 10 > page.page_height * 4)
      /\ Len(JoinSpace([l \in DOMAIN block.lines |-> block.lines[l].text])) > 0

\* score = avg_size + centering_score + position_score, as the fraction
\* <<n, d>> with d = 4 * W * H (W, H the page's width and height):
\*   avg_size        = m / 4           m = Median2 of the half-point sizes
\*   centering_score = 15 * (1 - |x0 + x1 - W| / W), or 0 when W <= 0
\*   position_score  = 5 * (1 - y0 / (0.4 * H))
TitleScore(doc, pb) ==
  LET page == doc[pb[1]]
      block == page.blocks[pb[2]]
      W == page.page_width
      H == page.page_height
      sizes == Concat([l \in DOMAIN block.lines |->
                 [k \in DOMAIN block.lines[l].spans |-> block.lines[l].spans[k].size]])
      m == IF Len(sizes) > 0 THEN Median2(sizes) ELSE 0
      centering == IF W > 0
                   THEN 60 * H * (W - Abs(block.bbox[1] + block.bbox[3] - W))
                   ELSE 0
      position == 20 * W * H - 50 * W * block.bbox[2]
  IN  <<m * W * H + centering + position, 4 * W * H>>

\* a < b for two fractions with positive denominators, compared through
\* their integer parts and the reciprocals of their fractional parts (the
\* cross products do not fit the 32-bit integers of TLC)
RECURSIVE FracLess(_, _)
FracLess(a, b) ==
  LET qa == a[1] \div a[2]
      ra == a[1] % a[2]
      qb == b[1] \div b[2]
      rb == b[1] % b[2]
  IN  IF qa # qb THEN qa < qb
      ELSE IF rb = 0 THEN FALSE
      ELSE IF ra = 0 THEN TRUE
      ELSE FracLess(<<b[2], rb>>, <<a[2], ra>>)

\* the candidates list, as places
TitleCandidates(doc, ignored) ==
  LET test(pb) == IsTitleCandidate(doc, ignored, pb)
  IN  SelectSeq(TitleBlocks(doc), test)

\* max(candidates, key=score): the first candidate no other one beats
BestCandidate(doc, cands) ==
  cands[CHOOSE i \in DOMAIN cands :
          /\ \A j \in DOMAIN cands :
               ~ FracLess(TitleScore(doc, cands[i]), TitleScore(doc, cands[j]))
          /\ \A j \in 1..(i-1) :
               FracLess(TitleScore(doc, cands[j]), TitleScore(doc, cands[i]))]

UntitledDocument ==
  <<"U","n","t","i","t","l","e","d"," ","D","o","c","u","m","e","n","t">>

NoTextFound ==
  <<"N","o"," ","T","e","x","t"," ","F","o","u","n","d">>

ExtractionFailed ==
  <<"E","x","t","r","a","c","t","i","o","n"," ","F","a","i","l","e","d">>

\* returns <<title text, line ids of the title block>>
FindTitleByLayout(doc, ignored) ==
  LET cands == TitleCandidates(doc, ignored)
  IN  IF Len(cands) = 0
      THEN << UntitledDocument, {} >>
      ELSE LET best == BestCandidate(doc, cands)
               lines == doc[best[1]].blocks[best[2]].lines
           IN  << JoinSpace([l \in DOMAIN lines |-> lines[l].text]),
                  { LineId(lines[l]) : l \in DOMAIN lines } >>

\* ------------------------------------------------------------------------
\* get_heading_score and the body baseline
\* ------------------------------------------------------------------------
\* twice body_text_size (lines 150-155)
BodyTextSize(doc) ==
  LET positions == Positions(doc)
      long(pos) == /\ WordCount(LineAt(doc, pos).text) > min_body_text_words
                   /\ ~ AnyBold(LineAt(doc, pos).spans)
      font_sizes == Concat([i \in DOMAIN positions |->
                      IF long(positions[i])
                      THEN [k \in DOMAIN LineAt(doc, positions[i]).spans |->
                              Round(LineAt(doc, positions[i]).spans[k].size)]
                      ELSE <<>>])
  IN  IF Len(font_sizes) > 0 THEN Median2(font_sizes) ELSE 2 * 10

\* a faulty variant of get_heading_score that grants the bonus of line 136
\* to every line, whatever the number of lines of its block
GetHeadingScoreAlwaysSole(line, block, body2) ==
  LET text == line.text
      spans == line.spans
      font_sizes == { Round(spans[k].size) : k \in DOMAIN spans }
      line_size == CHOOSE v \in font_sizes : TRUE
      is_bold == AnyBold(spans)
  IN  IF \/ MatchesListMarker(text)
         \/ SearchesUrl(text)
         \/ WordCount(text) > 15
         \/ EndsWith(text, <<".">>)
         \/ EndsWith(text, <<",">>)
      THEN -20
      ELSE IF Cardinality(font_sizes) > 1 THEN -20
      ELSE (IF 2 * line_size * 100 > body2 * font_size_ratio
              THEN (2 * line_size - body2) * 3
            ELSE IF 2 * line_size < body2
              THEN - (body2 - 2 * line_size)
            ELSE 0)
         + (IF is_bold THEN 5 ELSE 0)
         + (IF MatchesNumbering(text) THEN 4 ELSE 0)
         + (IF IsTitle(text) THEN 3 ELSE 0)
         + (IF IsUpper(text) THEN 4 ELSE 0)
         + (IF WordCount(text) < 10 THEN 2 ELSE 0)
         + (IF EndsWith(text, <<":">>) THEN 4 ELSE 0)
         + 6
         - (IF 2 * line_size < body2 /\ ~ is_bold THEN 6 ELSE 0)

\* twice the score of get_heading_score; body2 is twice body_text_size
GetHeadingScore(line, block, body2) ==
  LET text == line.text
      spans == line.spans
      font_sizes == { Round(spans[k].size) : k \in DOMAIN spans }
      line_size == CHOOSE v \in font_sizes : TRUE
      is_bold == AnyBold(spans)
  IN  IF \/ MatchesListMarker(text)
         \/ SearchesUrl(text)
         \/ WordCount(text) > 15
         \/ EndsWith(text, <<".">>)
         \/ EndsWith(text, <<",">>)
      THEN -20
      ELSE IF Cardinality(font_sizes) > 1 THEN -20
      ELSE (IF 2 * line_size * 100 > body2 * font_size_ratio
              THEN (2 * line_size - body2) * 3
            ELSE IF 2 * line_size < body2
              THEN - (body2 - 2 * line_size)
            ELSE 0)
         + (IF is_bold THEN 5 ELSE 0)
         + (IF MatchesNumbering(text) THEN 4 ELSE 0)
         + (IF IsTitle(text) THEN 3 ELSE 0)
         + (IF IsUpper(text) THEN 4 ELSE 0)
         + (IF WordCount(text) < 10 THEN 2 ELSE 0)
         + (IF EndsWith(text, <<":">>) THEN 4 ELSE 0)
         + (IF Len(block.lines) = 1 THEN 6 ELSE 0)
         - (IF 2 * line_size < body2 /\ ~ is_bold THEN 6 ELSE 0)

\* the test of lines 165-167 on the line at pos
IsHeadingCandidate(doc, ignored, body2, pos) ==
  /\ LineId(LineAt(doc, pos)) \notin ignored
  /\ GetHeadingScore(LineAt(doc, pos), BlockAt(doc, pos), body2) >= 2 * min_heading_score

\* ------------------------------------------------------------------------
\* Style clustering and level assignment (lines 174-191)
\* ------------------------------------------------------------------------
\* (mode([round(s['size']) for s in spans]), any('bold' in ...))
StyleKey(line) ==
  << Mode([k \in DOMAIN line.spans |-> Round(line.spans[k].size)]),
     AnyBold(line.spans) >>

\* the keys of style_properties in insertion order: the style keys of the
\* candidates, each at its first occurrence
StyleKeys(cands) ==
  LET first(i) == \A j \in 1..(i-1) : StyleKey(cands[j].line) # StyleKey(cands[i].line)
      idx == SelectSeq([i \in DOMAIN cands |-> i], first)
  IN  [i \in DOMAIN idx |-> StyleKey(cands[idx[i]].line)]

\* 2 * median(x0s) of the cluster of style key s
StyleX0(cands, s) ==
  LET members == SelectSeq(cands, LAMBDA h : StyleKey(h.line) = s)
  IN  Median2([i \in DOMAIN members |-> members[i].line.bbox[1]])

\* a faulty variant of the sort key of line 182 that ranks small sizes first
StyleBeforeSmallFirst(cands, a, b) ==
  \/ a[1] < b[1]
  \/ (a[1] = b[1] /\ StyleX0(cands, a) < StyleX0(cands, b))

\* the sort key (-size, x0): a before b
StyleBefore(cands, a, b) ==
  \/ a[1] > b[1]
  \/ (a[1] = b[1] /\ StyleX0(cands, a) < StyleX0(cands, b))

\* ranked_styles after the (stable) sort of line 182, as style keys
RankedStyles(cands) ==
  LET keys == StyleKeys(cands)
      \* the number of keys that sort before keys[i]
      rank(i) == Cardinality({ j \in DOMAIN keys :
                    \/ StyleBefore(cands, keys[j], keys[i])
                    \/ (~ StyleBefore(cands, keys[i], keys[j]) /\ j < i) })
  IN  [r \in DOMAIN keys |-> keys[CHOOSE i \in DOMAIN keys : rank(i) = r - 1]]

LevelName(n) ==
  IF n = 1 THEN "H1" ELSE IF n = 2 THEN "H2" ELSE "H3"

\* a faulty variant of line 183 that starts the levels at H2
StyleToLevelFromH2(cands) ==
  LET ranked == RankedStyles(cands)
      top == IF Len(ranked) < 3 THEN Len(ranked) ELSE 3
  IN  [s \in { ranked[i] : i \in 1..top } |->
         LevelName((CHOOSE i \in 1..top : ranked[i] = s) + 1)]

\* style_to_level, as a function on the first three ranked style keys
StyleToLevel(cands) ==
  LET ranked == RankedStyles(cands)
      top == IF Len(ranked) < 3 THEN Len(ranked) ELSE 3
  IN  [s \in { ranked[i] : i \in 1..top } |->
         LevelName(CHOOSE i \in 1..top : ranked[i] = s)]

\* style_to_level.get(style_key, "H3")
LevelOf(levels, key) ==
  IF key \in DOMAIN levels THEN levels[key] ELSE "H3"

\* the outline of lines 185-191
BuildOutline(cands, levels) ==
  [i \in DOMAIN cands |->
     [level |-> LevelOf(levels, StyleKey(cands[i].line)),
      text |-> cands[i].line.text,
      page |-> cands[i].page]]

\* ------------------------------------------------------------------------
\* Input documents
\* ------------------------------------------------------------------------
Plain ==
  <<"A","r","i","a","l">>

BoldFace ==
  <<"A","r","i","a","l","-","B","o","l","d">>

BoldCaps ==
  <<"D","I","N","-","B","O","L","D">>

\* n >= 1 copies of a word, separated by single spaces
RECURSIVE Rep(_, _)
Rep(word, n) ==
  IF n <= 1 THEN word ELSE word \o <<" ">> \o Rep(word, n - 1)

Lorem ==
  <<"l","o","r","e","m">>

\* a prose line of n words, and one that ends a sentence
Phrase(n) ==
  Rep(Lorem, n)

Sentence(n) ==
  Rep(Lorem, n) \o <<".">>

\* the decimal digits of n >= 0
RECURSIVE Decimal(_)
Decimal(n) ==
  IF n < 10 THEN <<DigitSeq[n + 1]>>
  ELSE Decimal(n \div 10) \o <<DigitSeq[(n % 10) + 1]>>

Span(text, size, font) ==
  [text |-> text, size |-> size, font |-> font]

\* bounding boxes are given in points
BBox(x0, y0, x1, y1) ==
  <<Pt(x0), Pt(y0), Pt(x1), Pt(y1)>>

\* a raw line of one span
RawLine(text, size, font, bbox) ==
  [bbox |-> bbox, spans |-> <<Span(text, size, font)>>]

\* a raw text block of one line of one span, with the bbox of its line
OneLineBlock(text, size, font, bbox) ==
  [type |-> 0, bbox |-> bbox, lines |-> <<RawLine(text, size, font, bbox)>>]

\* a raw text block of n prose lines of the given size, the last one ending
\* a sentence, 15pt apart, from (72, y0) to the right margin
Paragraph(n, size, y0) ==
  [type |-> 0,
   bbox |-> BBox(72, y0, 528, y0 + 15 * n),
   lines |-> [i \in 1..n |->
     RawLine(IF i = n THEN Sentence(7) ELSE Phrase(8), size, Plain,
             BBox(72, y0 + 15 * (i - 1), 528, y0 + 15 * i))]]

RawPage(blocks) ==
  [page_width |-> Pt(600), page_height |-> Pt(800), blocks |-> blocks]

\* Texts
AnnualReport ==
  <<"A","n","n","u","a","l"," ","R","e","p","o","r","t"," ","2","0","2","4">>

Introduction ==
  <<"I","n","t","r","o","d","u","c","t","i","o","n">>

Background ==
  <<"B","a","c","k","g","r","o","u","n","d">>

ScopeText ==
  <<"1","."," ","S","c","o","p","e">>

NotesText ==
  <<"N","o","t","e","s",":">>

SummaryText ==
  <<"S","u","m","m","a","r","y">>

NoteText ==
  <<"N","o","t","e">>

UrlText ==
  <<"s","e","e"," ","w","w","w",".","x">>

BulletText ==
  <<Bullet," ","i","t","e","m">>

\* Page layouts of the general family
TitlePage ==
  RawPage(<< OneLineBlock(AnnualReport, Pt(24), BoldFace, BBox(150, 60, 450, 90)),
             Paragraph(2, Pt(11), 400) >>)

HeadingsPage ==
  RawPage(<< OneLineBlock(Introduction, Pt(18), BoldFace, BBox(72, 100, 300, 125)),
             OneLineBlock(Background, Pt(14), BoldCaps, BBox(72, 300, 250, 318)),
             Paragraph(3, Pt(12), 350) >>)

PlainPage ==
  RawPage(<< Paragraph(5, Pt(12), 72) >>)

\* 12.5pt rounds to 12 and 13.5pt to 14; one line has spans of two sizes
MixedPage ==
  RawPage(<< OneLineBlock(ScopeText, 27, Plain, BBox(80, 80, 200, 98)),
             OneLineBlock(NotesText, Pt(12), BoldFace, BBox(90, 200, 200, 215)),
             [type |-> 0,
              bbox |-> BBox(72, 330, 400, 380),
              lines |-> << [bbox |-> BBox(72, 330, 400, 350),
                            spans |-> << Span(<<"O","V","E","R">>, Pt(16), Plain),
                                         Span(<<"V","I","E","W">>, Pt(16), Plain) >>],
                           [bbox |-> BBox(72, 355, 400, 380),
                            spans |-> << Span(<<"M","i","x","e","d">>, Pt(12), Plain),
                                         Span(<<"S","i","z","e","s">>, Pt(18), Plain) >>] >>],
             OneLineBlock(SummaryText, 25, BoldFace, BBox(72, 500, 200, 515)) >>)

\* an image block, and a text block none of whose lines has text
EmptyishPage ==
  RawPage(<< [type |-> 1, bbox |-> BBox(72, 72, 528, 400), lines |-> <<>>],
             [type |-> 0,
              bbox |-> BBox(72, 420, 528, 450),
              lines |-> << [bbox |-> BBox(72, 420, 528, 435),
                            spans |-> << Span(<<" ">>, Pt(12), Plain) >>],
                           [bbox |-> BBox(72, 435, 528, 450),
                            spans |-> <<>>] >>] >>)

SmallPage ==
  RawPage(<< OneLineBlock(NoteText, Pt(9), BoldFace, BBox(72, 100, 120, 110)),
             OneLineBlock(UrlText, Pt(14), Plain, BBox(72, 200, 200, 215)),
             OneLineBlock(BulletText, Pt(14), BoldFace, BBox(72, 250, 200, 265)),
             OneLineBlock(Phrase(16), Pt(14), BoldFace, BBox(72, 300, 528, 315)),
             Paragraph(2, Pt(8), 700) >>)

PageKinds ==
  {"title", "headings", "plain", "mixed", "emptyish", "small"}

GeneralPage(kind) ==
  IF kind = "title" THEN TitlePage
  ELSE IF kind = "headings" THEN HeadingsPage
  ELSE IF kind = "plain" THEN PlainPage
  ELSE IF kind = "mixed" THEN MixedPage
  ELSE IF kind = "emptyish" THEN EmptyishPage
  ELSE SmallPage

\* the largest number of pages of a document of the general family
MaxPages ==
  3

\* the sequences of at most n elements of S
SeqsUpTo(S, n) ==
  UNION { [1..k -> S] : k \in 0..n }

\* Pages of the family with running lines.  Page i of n has one of three
\* layouts:
\*   "footer": a paragraph of 5 lines and the footer 'Page i of n' in the
\*             footer band;
\*   "header": the running header 'Report 2024' in the header band (set half
\*             a point to the right on even pages) and a paragraph of 2 lines;
\*   "inline": a bold 14pt heading, a sole line of 12 words, and the text
\*             'Page i of n' in the middle of the page;
\* and, for Scenario B of the specification, also
\*   "headfoot": a bold 14pt heading, a long paragraph and the footer.
PageOfText(i, n) ==
  <<"P","a","g","e"," ">> \o Decimal(i) \o <<" ","o","f"," ">> \o Decimal(n)

RunningHeader ==
  <<"R","e","p","o","r","t"," ","2","0","2","4">>

RunningPage(kind, i, n) ==
  IF kind = "footer"
  THEN RawPage(<< Paragraph(5, Pt(12), 100),
                  OneLineBlock(PageOfText(i, n), Pt(12), Plain, BBox(250, 740, 350, 755)) >>)
  ELSE IF kind = "header"
  THEN RawPage(<< OneLineBlock(RunningHeader, Pt(12), Plain,
                               <<Pt(72) + (IF i % 2 = 0 THEN 1 ELSE 0), Pt(40), Pt(200), Pt(55)>>),
                  Paragraph(2, Pt(12), 150) >>)
  ELSE IF kind = "headfoot"
  THEN RawPage(<< OneLineBlock(SummaryText, Pt(14), BoldFace, BBox(72, 100, 200, 118)),
                  Paragraph(5, Pt(12), 150),
                  OneLineBlock(PageOfText(i, n), Pt(12), Plain, BBox(250, 740, 350, 755)) >>)
  ELSE RawPage(<< OneLineBlock(SummaryText, Pt(14), BoldFace, BBox(72, 100, 200, 118)),
                  OneLineBlock(Phrase(12), Pt(12), Plain, BBox(72, 400, 528, 415)),
                  OneLineBlock(PageOfText(i, n), Pt(12), Plain, BBox(72, 500, 172, 515)) >>)

RunningKinds ==
  {"footer", "header", "inline"}

\* the largest number of pages of a document of that family
NoisePages ==
  6

\* a raw text block of the given lines, one span each, 15pt apart, with the
\* upper left corner at (x0, y0) and the right edge at x1
TextBlock(texts, size, font, x0, y0, x1) ==
  [type |-> 0,
   bbox |-> BBox(x0, y0, x1, y0 + 15 * Len(texts)),
   lines |-> [i \in DOMAIN texts |->
     RawLine(texts[i], size, font, BBox(x0, y0 + 15 * (i - 1), x1, y0 + 15 * i))]]

\* Scenario C of the specification: on page 1 an 18pt bold centered line
\* 'Introduction' with its top at introY, below it a 14pt bold line
\* 'Background' with its top at backY, then a 12pt plain paragraph of
\* bodyLines lines; extra further pages of 12pt plain prose.
ScenarioCPages(introY, backY, bodyLines, extra) ==
  << RawPage(<< OneLineBlock(Introduction, Pt(18), BoldFace,
                             BBox(230, introY, 370, introY + 22)),
                OneLineBlock(Background, Pt(14), BoldFace,
                             BBox(72, backY, 180, backY + 18)),
                Paragraph(bodyLines, Pt(12), backY + 40) >>) >>
  \o [i \in 1..extra |-> RawPage(<< Paragraph(3, Pt(12), 72) >>)]

IntroTops ==
  {60, 200, 330, 400}

BackTops ==
  {120, 260, 360, 460, 600}

ScenarioCContents ==
  { [family |-> "scenario", kinds |-> <<>>, params |-> <<t[1], t[2], lines, extra>>] :
      t \in { u \in IntroTops \X BackTops : u[1] + 30 <= u[2] },
      lines \in {3, 5},
      extra \in {0, 1} }

\* Blocks of the uniform-style family: every span has the same size and the
\* plain font.  The i-th block of a page has its top at 100 + 150 * (i - 1).
UniformBlock(kind, size, y0) ==
  IF kind = "para" THEN Paragraph(3, size, y0)
  ELSE IF kind = "short"
    THEN TextBlock(<<SummaryText, NoteText>>, size, Plain, 72, y0, 200)
  ELSE IF kind = "label"
    THEN TextBlock(<<NotesText>>, size, Plain, 72, y0, 200)
  ELSE IF kind = "numbered"
    THEN TextBlock(<<ScopeText>>, size, Plain, 72, y0, 200)
  ELSE IF kind = "caps"
    THEN TextBlock(<< <<"O","V","E","R","V","I","E","W">>, Phrase(8) >>,
                   size, Plain, 72, y0, 528)
  ELSE IF kind = "single"
    THEN TextBlock(<<Phrase(12)>>, size, Plain, 72, y0, 528)
  ELSE TextBlock(<<Phrase(16)>>, size, Plain, 72, y0, 528)

UniformKinds ==
  {"para", "short", "label", "numbered", "caps", "single", "long"}

\* the common font sizes tried: 10pt, 11.5pt and 12pt
UniformSizes ==
  {Pt(10), 23, Pt(12)}

\* the largest number of blocks of a document of the uniform-style family
UniformBlocks ==
  2

UniformContents ==
  { [family |-> "uniform", kinds |-> kinds, params |-> <<size>>] :
      kinds \in UNION { [1..n -> UniformKinds] : n \in 1..UniformBlocks },
      size \in UniformSizes }

\* ------------------------------------------------------------------------
\* Files.  The state names a file by a short description,
\* [family, kinds, params]; FileContent is what fitz finds in it.
\* ------------------------------------------------------------------------
Unreadable ==
  [family |-> "unreadable", kinds |-> <<>>, params |-> <<>>]

Broken ==
  [family |-> "broken", kinds |-> <<>>, params |-> <<>>]

GeneralContents ==
  {Unreadable, Broken} \cup
  { [family |-> "general", kinds |-> kinds, params |-> <<>>] :
      kinds \in SeqsUpTo(PageKinds, MaxPages) }

NoiseContents ==
  { [family |-> "running", kinds |-> kinds, params |-> <<>>] :
      kinds \in UNION { [1..n -> RunningKinds] : n \in 1..NoisePages } }

\* Scenario B of the specification: 6 pages, the footer 'Page i of 6' on
\* every page
ScenarioBContents ==
  { [family |-> "running", kinds |-> kinds, params |-> <<>>] :
      kinds \in [1..6 -> {"footer", "headfoot"}] }

FileContent(file) ==
  IF file.family = "unreadable" THEN UnreadableFile
  ELSE IF file.family = "broken" THEN BrokenFile
  ELSE IF file.family = "general"
    THEN RawDoc([i \in DOMAIN file.kinds |-> GeneralPage(file.kinds[i])])
  ELSE IF file.family = "running"
    THEN RawDoc([i \in DOMAIN file.kinds |->
                   RunningPage(file.kinds[i], i, Len(file.kinds))])
  ELSE IF file.family = "scenario"
    THEN RawDoc(ScenarioCPages(file.params[1], file.params[2],
                              file.params[3], file.params[4]))
  ELSE RawDoc(<< RawPage([i \in DOMAIN file.kinds |->
                   UniformBlock(file.kinds[i], file.params[1],
                                100 + 150 * (i - 1))]) >>)

\* ------------------------------------------------------------------------
\* Results
\* ------------------------------------------------------------------------
\* the error key is absent
NoError ==
  "<absent>"

\* os.path.basename: what follows the last '/'
Basename(path) ==
  IF \A i \in DOMAIN path : path[i] # "/" THEN path
  ELSE LET last == CHOOSE i \in DOMAIN path :
                     /\ path[i] = "/"
                     /\ \A j \in (i+1)..Len(path) : path[j] # "/"
       IN  SubSeq(path, last + 1, Len(path))

CouldNotOpenResult(path) ==
  [title |-> Basename(path), outline |-> <<>>,
   error |-> "Could not open or read PDF file."]

NoTextResult ==
  [title |-> NoTextFound, outline |-> <<>>,
   error |-> "No text extracted from the document."]

OutlineResult(title, outline) ==
  [title |-> title, outline |-> outline, error |-> NoError]

\* ------------------------------------------------------------------------
\* State
\* ------------------------------------------------------------------------
VARIABLES
  pdf_path,            \* extract_pdf_outline: its argument
  content,             \* the file at pdf_path (see Files)
  pc,                  \* extract_pdf_outline: the stage about to run
  bound,               \* the locals of extract_pdf_outline bound so far
  doc_structure,
  body_text_size,      \* twice its value
  ignored_line_ids,
  title_text,
  cursor,              \* the index in Positions of the line the loop of
                       \* lines 162-169 is at
  heading_candidates,  \* records [line, page, pos]; pos is the place of the
                       \* line object in doc_structure
  style_to_level,
  result,
  listing,             \* main: os.listdir(input_dir), records [name, content]
  input_is_dir,        \* main: os.path.isdir(input_dir)
  main_pc,
  file_index,          \* main: the position of the loop in listing
  outputs,             \* main: the files written, output path -> data
  processed_files

pipeline_vars ==
  <<pdf_path, content, pc, bound, doc_structure, body_text_size,
    ignored_line_ids, title_text, cursor, heading_candidates,
    style_to_level, result>>

main_vars ==
  <<listing, input_is_dir, main_pc, file_index, outputs, processed_files>>

vars ==
  <<pdf_path, content, pc, bound, doc_structure, body_text_size,
    ignored_line_ids, title_text, cursor, heading_candidates,
    style_to_level, result, listing, input_is_dir, main_pc, file_index,
    outputs, processed_files>>

\* ------------------------------------------------------------------------
\* extract_pdf_outline, stage by stage
\* ------------------------------------------------------------------------
\* line 143
OpenDocument ==
  /\ pc = "open"
  /\ LET ds == GetDocumentStructure(FileContent(content))
     IN  IF ds.status = "raised"
         THEN /\ pc' = "raised"
              /\ UNCHANGED <<bound, doc_structure>>
         ELSE /\ pc' = "check"
              /\ doc_structure' = ds
              /\ bound' = bound \cup {"doc_structure"}
  /\ UNCHANGED <<pdf_path, content, body_text_size, ignored_line_ids,
                 title_text, cursor, heading_candidates, style_to_level,
                 result>>
  /\ UNCHANGED main_vars

\* lines 144-155: the two early returns, else the body baseline
CheckDocument ==
  /\ pc = "check"
  /\ IF doc_structure.status = "none"
     THEN /\ result' = CouldNotOpenResult(pdf_path)
          /\ pc' = "done"
          /\ UNCHANGED <<bound, body_text_size>>
     ELSE IF ~ HasText(doc_structure.pages)
     THEN /\ result' = NoTextResult
          /\ pc' = "done"
          /\ UNCHANGED <<bound, body_text_size>>
     ELSE /\ body_text_size' = BodyTextSize(doc_structure.pages)
          /\ bound' = bound \cup {"body_text_size"}
          /\ pc' = "filter"
          /\ UNCHANGED result
  /\ UNCHANGED <<pdf_path, content, doc_structure, ignored_line_ids,
                 title_text, cursor, heading_candidates, style_to_level>>
  /\ UNCHANGED main_vars

\* line 157
FilterNoise ==
  /\ pc = "filter"
  /\ ignored_line_ids' = IdentifyAndFilterContent(doc_structure.pages)
  /\ bound' = bound \cup {"ignored_line_ids"}
  /\ pc' = "title"
  /\ UNCHANGED <<pdf_path, content, doc_structure, body_text_size,
                 title_text, cursor, heading_candidates, style_to_level,
                 result>>
  /\ UNCHANGED main_vars

\* a faulty variant of lines 158-159 that leaves the lines of the title
\* block out of ignored_line_ids
DetectTitleKeepsLines ==
  /\ pc = "title"
  /\ title_text' = FindTitleByLayout(doc_structure.pages, ignored_line_ids)[1]
  /\ bound' = bound \cup {"title_text", "heading_candidates"}
  /\ heading_candidates' = <<>>
  /\ cursor' = 1
  /\ pc' = "score"
  /\ UNCHANGED <<pdf_path, content, doc_structure, body_text_size,
                 ignored_line_ids, style_to_level, result>>
  /\ UNCHANGED main_vars

\* lines 158-161
DetectTitle ==
  /\ pc = "title"
  /\ LET found == FindTitleByLayout(doc_structure.pages, ignored_line_ids)
     IN  /\ title_text' = found[1]
         /\ ignored_line_ids' = ignored_line_ids \cup found[2]
  /\ bound' = bound \cup {"title_text", "heading_candidates"}
  /\ heading_candidates' = <<>>
  /\ cursor' = 1
  /\ pc' = "score"
  /\ UNCHANGED <<pdf_path, content, doc_structure, body_text_size,
                 style_to_level, result>>
  /\ UNCHANGED main_vars

\* lines 162-169, one line of the Document Structure per step
ScoreLine ==
  /\ pc = "score"
  /\ cursor <= Len(Positions(doc_structure.pages))
  /\ LET pos == Positions(doc_structure.pages)[cursor]
     IN  heading_candidates' =
           IF IsHeadingCandidate(doc_structure.pages, ignored_line_ids,
                                 body_text_size, pos)
           THEN Append(heading_candidates,
                  [line |-> LineAt(doc_structure.pages, pos),
                   page |-> doc_structure.pages[pos[1]].page_num,
                   pos |-> pos])
           ELSE heading_candidates
  /\ cursor' = cursor + 1
  /\ UNCHANGED <<pdf_path, content, pc, bound, doc_structure,
                 body_text_size, ignored_line_ids, title_text,
                 style_to_level, result>>
  /\ UNCHANGED main_vars

\* lines 171-183: the early return, else the style clusters and their levels
AssignLevels ==
  /\ pc = "score"
  /\ cursor > Len(Positions(doc_structure.pages))
  /\ IF Len(heading_candidates) = 0
     THEN /\ result' = OutlineResult(title_text, <<>>)
          /\ pc' = "done"
          /\ UNCHANGED <<bound, style_to_level>>
     ELSE /\ style_to_level' = StyleToLevel(heading_candidates)
          /\ bound' = bound \cup {"style_to_level"}
          /\ pc' = "assemble"
          /\ UNCHANGED result
  /\ UNCHANGED <<pdf_path, content, doc_structure, body_text_size,
                 ignored_line_ids, title_text, cursor, heading_candidates>>
  /\ UNCHANGED main_vars

\* lines 185-193
AssembleOutline ==
  /\ pc = "assemble"
  /\ result' = OutlineResult(title_text,
                             BuildOutline(heading_candidates, style_to_level))
  /\ pc' = "done"
  /\ UNCHANGED <<pdf_path, content, bound, doc_structure, body_text_size,
                 ignored_line_ids, title_text, cursor, heading_candidates,
                 style_to_level>>
  /\ UNCHANGED main_vars

\* extract_pdf_outline as one function, for main: [raised, value].  Each
\* local of the function is computed once and handed on (Only binds it).
Only(S) ==
  CHOOSE x \in S : TRUE

\* the list heading_candidates after the loop of lines 162-169
HeadingCandidates(doc, ignored, body2) ==
  LET hits == SelectSeq(Positions(doc),
                LAMBDA pos : IsHeadingCandidate(doc, ignored, body2, pos))
  IN  [i \in DOMAIN hits |->
         [line |-> LineAt(doc, hits[i]),
          page |-> doc[hits[i][1]].page_num,
          pos |-> hits[i]]]

\* lines 171-193
OutlineOfCandidates(title, cands) ==
  IF Len(cands) = 0
  THEN OutlineResult(title, <<>>)
  ELSE Only({ OutlineResult(title, BuildOutline(cands, levels)) :
                levels \in {StyleToLevel(cands)} })

\* lines 158-193
OutlineAfterFilter(doc, body2, ignored0) ==
  Only({ Only({ OutlineOfCandidates(found[1], cands) :
                  cands \in {HeadingCandidates(doc, ignored0 \cup found[2], body2)} }) :
           found \in {FindTitleByLayout(doc, ignored0)} })

\* lines 144-193
OutlineOfStructure(path, ds) ==
  IF ds.status = "raised" THEN [raised |-> TRUE, value |-> NoTextResult]
  ELSE IF ds.status = "none"
    THEN [raised |-> FALSE, value |-> CouldNotOpenResult(path)]
  ELSE IF ~ HasText(ds.pages)
    THEN [raised |-> FALSE, value |-> NoTextResult]
  ELSE [raised |-> FALSE,
        value |-> Only({ OutlineAfterFilter(ds.pages, body2, ignored0) :
                           body2 \in {BodyTextSize(ds.pages)},
                           ignored0 \in {IdentifyAndFilterContent(ds.pages)} })]

ExtractPdfOutline(path, file) ==
  Only({ OutlineOfStructure(path, ds) :
           ds \in {GetDocumentStructure(FileContent(file))} })

\* ------------------------------------------------------------------------
\* main and save_json
\* ------------------------------------------------------------------------
input_dir ==
  <<"/","a","p","p","/","i","n","p","u","t">>

output_dir ==
  <<"/","a","p","p","/","o","u","t","p","u","t">>

\* os.path.join(dir, name) for a relative name
PathJoin(dir, name) ==
  dir \o <<"/">> \o name

\* os.path.splitext(filename)[0]: what precedes the last dot, unless that
\* dot is among the leading dots of the name
SplitExtRoot(name) ==
  IF \A i \in DOMAIN name : name[i] # "." THEN name
  ELSE LET last == CHOOSE i \in DOMAIN name :
                     /\ name[i] = "."
                     /\ \A j \in (i+1)..Len(name) : name[j] # "."
       IN  IF \E j \in 1..(last - 1) : name[j] # "."
           THEN SubSeq(name, 1, last - 1)
           ELSE name

\* filename.lower().endswith(".pdf")
IsPdfName(filename) ==
  EndsWith(Lower(filename), <<".","p","d","f">>)

\* output_json_path of line 224
OutputPath(filename) ==
  PathJoin(output_dir, SplitExtRoot(filename) \o <<".","j","s","o","n">>)

\* the files after save_json(data, path) returned
Saved(files, path, data) ==
  [q \in DOMAIN files \cup {path} |-> IF q = path THEN data ELSE files[q]]

\* the report of line 234; its error text is str(e)
ErrorReport ==
  [title |-> ExtractionFailed, outline |-> <<>>, error |-> "str(e)"]

\* lines 208-219
StartMain ==
  /\ main_pc = "start"
  /\ IF ~ input_is_dir
     THEN /\ main_pc' = "returned"
          /\ UNCHANGED <<file_index, processed_files>>
     ELSE /\ main_pc' = "loop"
          /\ file_index' = 1
          /\ processed_files' = 0
  /\ UNCHANGED <<listing, input_is_dir, outputs>>
  /\ UNCHANGED pipeline_vars

\* one iteration of the loop of lines 220-235.  Each call of save_json
\* either writes the file or raises (os.makedirs, open and json.dump can):
\* save_ok is the outcome of the call of line 229, retry_ok of line 235.
\* An exception of line 235 is inside no try and leaves main.
ProcessFile ==
  /\ main_pc = "loop"
  /\ file_index <= Len(listing)
  /\ \E save_ok \in BOOLEAN, retry_ok \in BOOLEAN :
       LET filename == listing[file_index].name
           input_pdf_path == PathJoin(input_dir, filename)
           output_json_path == OutputPath(filename)
           extracted == ExtractPdfOutline(input_pdf_path, listing[file_index].content)
       IN  IF ~ IsPdfName(filename)
           THEN /\ file_index' = file_index + 1
                /\ UNCHANGED <<main_pc, outputs, processed_files>>
           ELSE IF ~ extracted.raised /\ save_ok
           THEN /\ outputs' = Saved(outputs, output_json_path, extracted.value)
                /\ processed_files' = processed_files + 1
                /\ file_index' = file_index + 1
                /\ UNCHANGED main_pc
           ELSE IF retry_ok
           THEN /\ outputs' = Saved(outputs, output_json_path, ErrorReport)
                /\ file_index' = file_index + 1
                /\ UNCHANGED <<main_pc, processed_files>>
           ELSE /\ main_pc' = "crashed"
                /\ UNCHANGED <<file_index, outputs, processed_files>>
  /\ UNCHANGED <<listing, input_is_dir>>
  /\ UNCHANGED pipeline_vars

\* lines 237-238
FinishMain ==
  /\ main_pc = "loop"
  /\ file_index > Len(listing)
  /\ main_pc' = "finished"
  /\ UNCHANGED <<listing, input_is_dir, file_index, outputs, processed_files>>
  /\ UNCHANGED pipeline_vars

\* ------------------------------------------------------------------------
\* Specifications
\* ------------------------------------------------------------------------
SamplePath ==
  PathJoin(input_dir, <<"a",".","p","d","f">>)

\* extract_pdf_outline is about to be called on one of the given files
InitExtract(contents) ==
  /\ pdf_path = SamplePath
  /\ content \in contents
  /\ pc = "open"
  /\ bound = {}
  /\ doc_structure = [status |-> "unset", pages |-> <<>>]
  /\ body_text_size = 0
  /\ ignored_line_ids = {}
  /\ title_text = <<>>
  /\ cursor = 0
  /\ heading_candidates = <<>>
  /\ style_to_level = <<>>
  /\ result = [title |-> <<>>, outline |-> <<>>, error |-> NoError]
  /\ listing = <<>>
  /\ input_is_dir = FALSE
  /\ main_pc = "idle"
  /\ file_index = 0
  /\ outputs = <<>>
  /\ processed_files = 0

Init ==
  InitExtract(GeneralContents)

Next ==
  \/ OpenDocument
  \/ CheckDocument
  \/ FilterNoise
  \/ DetectTitle
  \/ ScoreLine
  \/ AssignLevels
  \/ AssembleOutline

Spec ==
  Init /\ [][Next]_vars

InitNoise ==
  InitExtract(NoiseContents)

SpecNoise ==
  InitNoise /\ [][Next]_vars

InitScenarioB ==
  InitExtract(ScenarioBContents)

SpecScenarioB ==
  InitScenarioB /\ [][Next]_vars

InitScenarioC ==
  InitExtract(ScenarioCContents)

SpecScenarioC ==
  InitScenarioC /\ [][Next]_vars

InitUniform ==
  InitExtract(UniformContents)

SpecUniform ==
  InitUniform /\ [][Next]_vars

\* main is about to run on a directory listing of at most MaxFiles files
FileNames ==
  { <<"a",".","p","d","f">>, <<"B",".","P","D","F">>, <<"c",".","t","x","t">> }

BatchContents ==
  { Unreadable, Broken,
    [family |-> "general", kinds |-> <<>>, params |-> <<>>],
    [family |-> "general", kinds |-> <<"headings">>, params |-> <<>>] }

MaxFiles ==
  2

Listings ==
  { l \in SeqsUpTo([name : FileNames, content : BatchContents], MaxFiles) :
      \A i \in DOMAIN l : \A j \in DOMAIN l : i # j => l[i].name # l[j].name }

InitMain ==
  /\ pdf_path = <<>>
  /\ content = Unreadable
  /\ pc = "idle"
  /\ bound = {}
  /\ doc_structure = [status |-> "unset", pages |-> <<>>]
  /\ body_text_size = 0
  /\ ignored_line_ids = {}
  /\ title_text = <<>>
  /\ cursor = 0
  /\ heading_candidates = <<>>
  /\ style_to_level = <<>>
  /\ result = [title |-> <<>>, outline |-> <<>>, error |-> NoError]
  /\ listing \in Listings
  /\ input_is_dir \in BOOLEAN
  /\ main_pc = "start"
  /\ file_index = 0
  /\ outputs = <<>>
  /\ processed_files = 0

NextMain ==
  \/ StartMain
  \/ ProcessFile
  \/ FinishMain

SpecMain ==
  InitMain /\ [][NextMain]_vars

\* ------------------------------------------------------------------------
\* Properties
\* ------------------------------------------------------------------------
\* the Document Structure of the current call
Doc ==
  doc_structure.pages

\* extract_pdf_outline returned a title and an outline
Returned ==
  pc = "done" /\ "title_text" \in bound

\* the places of the lines the outline entries come from
Sources ==
  { heading_candidates[i].pos : i \in DOMAIN heading_candidates }

\* the text of the block that holds the line at pos, as the title detector
\* joins it
BlockText(doc, pos) ==
  JoinSpace([l \in DOMAIN BlockAt(doc, pos).lines |-> BlockAt(doc, pos).lines[l].text])

\* the page numbers on which some line has the normalized text key
PagesWithKey(doc, key) ==
  { doc[p].page_num : p \in { q \in DOMAIN doc :
      \E b \in DOMAIN doc[q].blocks : \E l \in DOMAIN doc[q].blocks[b].lines :
        NormalizeDigits(doc[q].blocks[b].lines[l].text) = key } }

\* C1: a line whose digit-normalized text occurs on more than 2 distinct
\* pages (or on more than half of the pages of a document of more than 5
\* pages) is no outline entry and no part of the title, on whatever page and
\* at whatever height it stands.
C1_RepeatedTextSuppressed ==
  Returned =>
    \A i \in DOMAIN Positions(Doc) :
      LET pos == Positions(Doc)[i]
          seen == Cardinality(PagesWithKey(Doc, NormalizeDigits(LineAt(Doc, pos).text)))
      IN  (seen > 2 \/ (Len(Doc) > 5 /\ 2 * seen > Len(Doc)))
            => /\ pos \notin Sources
               /\ BlockText(Doc, pos) # title_text

\* Scenario B itself has been processed: a document of 6 pages with the
\* footer 'Page i of 6' on every page
C1_ScenarioBReached ==
  /\ Returned
  /\ Len(Doc) = 6
  /\ \A p \in DOMAIN Doc : \E b \in DOMAIN Doc[p].blocks :
       Doc[p].blocks[b].lines[1].text = PageOfText(p, 6)

\* the style of the i-th outline entry's source line
EntryStyle(i) ==
  StyleKey(LineAt(Doc, heading_candidates[i].pos))

\* twice the median left edge of the outline entries that have style key s
ClusterX0(s) ==
  LET members == SelectSeq([i \in DOMAIN heading_candidates |-> i],
                           LAMBDA i : EntryStyle(i) = s)
  IN  Median2([k \in DOMAIN members |->
                 LineAt(Doc, heading_candidates[members[k]].pos).bbox[1]])

\* the style cluster a ranks strictly above the cluster b: larger font
\* size, or the same size and a smaller median x0
RanksAbove(a, b) ==
  \/ a[1] > b[1]
  \/ (a[1] = b[1] /\ ClusterX0(a) < ClusterX0(b))

LevelNumber(level) ==
  IF level = "H1" THEN 1 ELSE IF level = "H2" THEN 2 ELSE 3

\* C2: every outline level is H1, H2 or H3; entries of one Style Key have
\* one level; an entry of a cluster that ranks strictly above another
\* cluster has no numerically higher level than an entry of that cluster.
C2_LevelsFollowStyleRank ==
  Returned =>
    /\ Len(result.outline) = Len(heading_candidates)
    /\ \A i \in DOMAIN result.outline :
         result.outline[i].level \in {"H1", "H2", "H3"}
    /\ \A i \in DOMAIN result.outline : \A j \in DOMAIN result.outline :
         /\ EntryStyle(i) = EntryStyle(j)
              => result.outline[i].level = result.outline[j].level
         /\ RanksAbove(EntryStyle(i), EntryStyle(j))
              => LevelNumber(result.outline[i].level)
                   <= LevelNumber(result.outline[j].level)

\* an outline of more than 3 styles, two of them of one size that the
\* median x0 separates into different levels
C2_ManyStyles ==
  /\ Returned
  /\ Cardinality({ EntryStyle(i) : i \in DOMAIN heading_candidates }) > 3
  /\ \E i \in DOMAIN result.outline : \E j \in DOMAIN result.outline :
       /\ EntryStyle(i)[1] = EntryStyle(j)[1]
       /\ ClusterX0(EntryStyle(i)) < ClusterX0(EntryStyle(j))
       /\ result.outline[i].level = "H2"
       /\ result.outline[j].level = "H3"

\* the place a comes before the place b in document order
PlaceBefore(a, b) ==
  \/ a[1] < b[1]
  \/ (a[1] = b[1] /\ a[2] < b[2])
  \/ (a[1] = b[1] /\ a[2] = b[2] /\ a[3] < b[3])

\* C5: the outline entries come in the document order of their source
\* lines (page, block, line); every page is the 1-based number of the
\* source line's page, within 1..page count; pages never decrease.
C5_DocumentOrder ==
  Returned =>
    /\ Len(result.outline) = Len(heading_candidates)
    /\ \A i \in DOMAIN result.outline :
         /\ result.outline[i].page \in 1..Len(Doc)
         /\ result.outline[i].page = heading_candidates[i].pos[1]
         /\ result.outline[i].text = LineAt(Doc, heading_candidates[i].pos).text
    /\ \A i \in DOMAIN result.outline : \A j \in DOMAIN result.outline :
         i < j => /\ PlaceBefore(heading_candidates[i].pos, heading_candidates[j].pos)
                  /\ result.outline[i].page <= result.outline[j].page

\* an outline with entries from two pages, none of them from page 1, and
\* two entries from one page
C5_SeveralPages ==
  /\ Returned
  /\ Len(result.outline) >= 3
  /\ result.outline[1].page = 2
  /\ result.outline[2].page = 2
  /\ result.outline[Len(result.outline)].page = 3

\* C6: a Document Structure without any line (zero pages included) makes
\* extract_pdf_outline return the fixed no-text result, with an error and
\* an empty outline, before the baseline, the noise filter, the title
\* detector and the scorer have run; a file that cannot be opened makes it
\* return the file's base name as title, an empty outline and an error,
\* without raising.
C6_ShortCircuit ==
  /\ content = Unreadable => pc # "raised"
  /\ pc = "done" /\ doc_structure.status = "none" =>
       /\ result = [title |-> <<"a",".","p","d","f">>, outline |-> <<>>,
                    error |-> "Could not open or read PDF file."]
       /\ bound = {"doc_structure"}
  /\ pc \notin {"open", "check"} /\ doc_structure.status = "ok"
       /\ Len(Positions(Doc)) = 0 =>
       /\ pc = "done"
       /\ result.title = NoTextFound
       /\ result.outline = <<>>
       /\ result.error # NoError
       /\ bound = {"doc_structure"}
       /\ cursor = 0

\* the no-text result for a document that has pages
C6_PagesWithoutText ==
  /\ pc = "done"
  /\ doc_structure.status = "ok"
  /\ Len(Doc) > 1
  /\ Len(Positions(Doc)) = 0
  /\ result = NoTextResult

\* C10: the levels of a non-empty outline are the first min(3, number of
\* Style Keys of the heading candidates) of H1, H2, H3, and every heading
\* candidate is an outline entry.
C10_LevelsArePrefix ==
  Returned /\ Len(heading_candidates) > 0 =>
    LET styles == Cardinality({ EntryStyle(i) : i \in DOMAIN heading_candidates })
        used == { result.outline[i].level : i \in DOMAIN result.outline }
    IN  /\ Len(result.outline) = Len(heading_candidates)
        /\ used = IF styles = 1 THEN {"H1"}
                  ELSE IF styles = 2 THEN {"H1", "H2"}
                  ELSE {"H1", "H2", "H3"}

\* an outline of exactly two styles
C10_TwoStyles ==
  /\ Returned
  /\ Cardinality({ EntryStyle(i) : i \in DOMAIN heading_candidates }) = 2
  /\ { result.outline[i].level : i \in DOMAIN result.outline } = {"H1", "H2"}

\* the places <<page index, block index>> of all blocks
AllBlocks(doc) ==
  { <<p, b>> : p \in DOMAIN doc, b \in 1..10 } \cap
  { pb \in (DOMAIN doc) \X (1..10) : pb[2] \in DOMAIN doc[pb[1]].blocks }

\* a title candidate, in the words of the claim: on one of the first 2
\* pages, no line suppressed, 1 to 4 lines, top within the top 40%
LayoutCandidate(doc, suppressed, pb) ==
  LET block == doc[pb[1]].blocks[pb[2]]
  IN  /\ pb[1] <= 2
      /\ \A l \in DOMAIN block.lines : LineId(block.lines[l]) \notin suppressed
      /\ Len(block.lines) \in 1..4
      /\ block.bbox[2] * 10 <= doc[pb[1]].page_height * 4

\* four times the three parts of a block's title score, each over the
\* denominator 2 * W * H of its page
SizePart(doc, pb) ==
  LET block == doc[pb[1]].blocks[pb[2]]
      sizes == Concat([l \in DOMAIN block.lines |->
                 [k \in DOMAIN block.lines[l].spans |-> block.lines[l].spans[k].size]])
  IN  Median2(sizes) * 2 * doc[pb[1]].page_width * doc[pb[1]].page_height

CenteringPart(doc, pb) ==
  LET block == doc[pb[1]].blocks[pb[2]]
      W == doc[pb[1]].page_width
  IN  120 * doc[pb[1]].page_height * (W - Abs(block.bbox[1] + block.bbox[3] - W))

PositionPart(doc, pb) ==
  LET block == doc[pb[1]].blocks[pb[2]]
      W == doc[pb[1]].page_width
      H == doc[pb[1]].page_height
  IN  40 * W * H - 100 * W * block.bbox[2]

LayoutScore(doc, pb) ==
  << SizePart(doc, pb) + CenteringPart(doc, pb) + PositionPart(doc, pb),
     2 * doc[pb[1]].page_width * doc[pb[1]].page_height >>

BlockLineIds(doc, pb) ==
  { LineId(doc[pb[1]].blocks[pb[2]].lines[l]) :
      l \in DOMAIN doc[pb[1]].blocks[pb[2]].lines }

BlockJoined(doc, pb) ==
  JoinSpace([l \in DOMAIN doc[pb[1]].blocks[pb[2]].lines |->
               doc[pb[1]].blocks[pb[2]].lines[l].text])

\* what the step of the title detector does, given the Suppression Set it
\* finds
TitleStep ==
  pc = "title" =>
    LET cands == { pb \in AllBlocks(Doc) : LayoutCandidate(Doc, ignored_line_ids, pb) }
    IN  IF cands = {}
        THEN /\ title_text' = UntitledDocument
             /\ ignored_line_ids' = ignored_line_ids
        ELSE \E pb \in cands :
               /\ \A other \in cands :
                    ~ FracLess(LayoutScore(Doc, pb), LayoutScore(Doc, other))
               /\ CenteringPart(Doc, pb) <= 15 * 4 * LayoutScore(Doc, pb)[2]
               /\ PositionPart(Doc, pb) <= 5 * 4 * LayoutScore(Doc, pb)[2]
               /\ title_text' = BlockJoined(Doc, pb)
               /\ ignored_line_ids' = ignored_line_ids \cup BlockLineIds(Doc, pb)

\* C8: the title candidates are the blocks of the first 2 pages with no
\* suppressed line, 1 to 4 lines and their top in the top 40% of the page;
\* the title is the space-joined text of a candidate of maximal score
\* (median size + centering bonus <= 15 + position bonus <= 5) and exactly
\* its line identities are added to the Suppression Set; without a
\* candidate the title is 'Untitled Document' and nothing is added.
C8_TitleByLayout ==
  [][TitleStep]_vars

\* the title was chosen among two candidates while a block of the first
\* two pages was suppressed as noise and another stood too low
C8_TitleChosen ==
  /\ pc = "score"
  /\ cursor = 1
  /\ title_text # UntitledDocument
  /\ LET noise == IdentifyAndFilterContent(Doc)
     IN  /\ Cardinality({ pb \in AllBlocks(Doc) : LayoutCandidate(Doc, noise, pb) }) >= 2
         /\ \E pb \in AllBlocks(Doc) :
              pb[1] <= 2 /\ BlockLineIds(Doc, pb) \subseteq noise
  /\ \E pb \in AllBlocks(Doc) :
       pb[1] <= 2 /\ Doc[pb[1]].blocks[pb[2]].bbox[2] * 10 > Doc[pb[1]].page_height * 4

\* the lines that qualify against the Suppression Set: identity not in the
\* set and a heading score of at least min_heading_score
Qualifying ==
  SelectSeq(Positions(Doc),
    LAMBDA pos :
      /\ LineId(LineAt(Doc, pos)) \notin ignored_line_ids
      /\ GetHeadingScore(LineAt(Doc, pos), BlockAt(Doc, pos), body_text_size)
           >= 2 * min_heading_score)

\* no line is scored before the noise filter and the title detector have
\* run; the outline is the qualifying lines, each once; no line of the
\* title block is among them
SuppressionRespected ==
  /\ (cursor > 1 \/ Len(heading_candidates) > 0)
       => {"ignored_line_ids", "title_text"} \subseteq bound
  /\ pc \in {"filter", "title"} => cursor = 0 /\ Len(heading_candidates) = 0
  /\ Returned =>
       LET qualifying == Qualifying
           title_ids == FindTitleByLayout(Doc, IdentifyAndFilterContent(Doc))[2]
       IN  /\ Len(result.outline) = Len(qualifying)
           /\ \A i \in DOMAIN result.outline :
                /\ heading_candidates[i].pos = qualifying[i]
                /\ result.outline[i].text = LineAt(Doc, qualifying[i]).text
                /\ result.outline[i].page = qualifying[i][1]
           /\ \A i \in DOMAIN heading_candidates :
                LineId(LineAt(Doc, heading_candidates[i].pos)) \notin title_ids

\* the Suppression Set only grows, and does not change once scoring began
SuppressionStep ==
  /\ ignored_line_ids \subseteq ignored_line_ids'
  /\ pc \in {"score", "assemble", "done"} => ignored_line_ids' = ignored_line_ids

\* C9: the Suppression Set is complete (noise filter, then title detector)
\* before a line is scored, only grows, and is fixed afterwards; a line is
\* an outline entry iff its identity is not in that set and its score is
\* at least min_heading_score, each such line once; no line of the title
\* block is an outline entry.
C9_SuppressionThenScoring ==
  []SuppressionRespected /\ [][SuppressionStep]_vars

\* an outline next to lines of heading score that the noise filter and the
\* title detector suppressed
C9_BothSuppress ==
  /\ Returned
  /\ Len(result.outline) > 0
  /\ LET noise == IdentifyAndFilterContent(Doc)
         scores(pos) == GetHeadingScore(LineAt(Doc, pos), BlockAt(Doc, pos), body_text_size)
                          >= 2 * min_heading_score
     IN  /\ \E i \in DOMAIN Positions(Doc) :
              /\ LineId(LineAt(Doc, Positions(Doc)[i])) \in noise
              /\ scores(Positions(Doc)[i])
         /\ \E i \in DOMAIN Positions(Doc) :
              /\ LineId(LineAt(Doc, Positions(Doc)[i])) \in ignored_line_ids \ noise
              /\ scores(Positions(Doc)[i])

\* ------------------------------------------------------------------------
\* Scenario C: three visual tiers on page 1
\* ------------------------------------------------------------------------
\* the outline Scenario C of the specification announces
ScenarioCOutline ==
  << [level |-> "H1", text |-> Introduction, page |-> 1],
     [level |-> "H2", text |-> Background, page |-> 1] >>

\* the 18pt bold centered block 'Introduction' of the current document
IntroductionBlock ==
  Doc[1].blocks[1]

\* its top lies in the top 40% of the height of page 1
IntroductionOnTop ==
  IntroductionBlock.bbox[2] * 10 <= Doc[1].page_height * 4

\* C3 as stated: for every document of Scenario C the outline is
\* [H1 'Introduction' p1, H2 'Background' p1] and 'Introduction' is not
\* consumed by the title detector.
C3_ScenarioCOutline ==
  Returned => /\ result.outline = ScenarioCOutline
              /\ result.title # Introduction

\* C3, amended: the outline of Scenario C depends on where 'Introduction'
\* stands.  With its top below the top 40% of the page it is no title
\* candidate: it is not the title and the outline is
\* [H1 'Introduction' p1, H2 'Background' p1].  With its top within the top
\* 40% it is the best title candidate and the title detector consumes it:
\* the title is 'Introduction' and the outline is [H1 'Background' p1].
C3_ScenarioCByPosition ==
  Returned =>
    IF IntroductionOnTop
      THEN /\ result.title = Introduction
           /\ result.outline = << [level |-> "H1", text |-> Background, page |-> 1] >>
      ELSE /\ result.title # Introduction
           /\ result.outline = ScenarioCOutline

\* a Scenario C document with 'Introduction' below the top 40% has been
\* processed, and one with a third visual tier of body text after it
C3_IntroductionLow ==
  /\ Returned
  /\ content.family = "scenario"
  /\ ~ IntroductionOnTop
  /\ Len(Doc[1].blocks) = 3
  /\ result.outline = ScenarioCOutline

\* ------------------------------------------------------------------------
\* Uniform-style documents
\* ------------------------------------------------------------------------
\* every span of the document has the same font size and no bold font
UniformStyle(doc) ==
  /\ \A i, j \in DOMAIN Positions(doc) :
       \A k \in DOMAIN LineAt(doc, Positions(doc)[i]).spans :
         \A m \in DOMAIN LineAt(doc, Positions(doc)[j]).spans :
           LineAt(doc, Positions(doc)[i]).spans[k].size
             = LineAt(doc, Positions(doc)[j]).spans[m].size
  /\ \A i \in DOMAIN Positions(doc) : ~ AnyBold(LineAt(doc, Positions(doc)[i]).spans)

\* some line has more than min_body_text_words words, so that the body
\* baseline is the common font size and not the default of 10
HasBodyLine(doc) ==
  \E i \in DOMAIN Positions(doc) :
    WordCount(LineAt(doc, Positions(doc)[i]).text) > min_body_text_words

\* the line at pos stands out by its layout or its text: it is the only line
\* of its block, ends with a colon, starts with a numbering prefix or is all
\* upper case
StandsOut(doc, pos) ==
  \/ Len(BlockAt(doc, pos).lines) = 1
  \/ EndsWith(LineAt(doc, pos).text, <<":">>)
  \/ MatchesNumbering(LineAt(doc, pos).text)
  \/ IsUpper(LineAt(doc, pos).text)

MainEnded ==
  main_pc \in {"finished", "crashed"}

\* the i-th file of the listing is a PDF whose processing fails: the file
\* cannot be opened, holds no text, or extract_pdf_outline raises
FailingPdf(i) ==
  /\ IsPdfName(listing[i].name)
  /\ LET extracted == ExtractPdfOutline(PathJoin(input_dir, listing[i].name),
                                        listing[i].content)
     IN  extracted.raised \/ extracted.value.error # NoError

\* C7 as stated: whichever documents fail, main visits every PDF of the
\* listing; when it has ended each PDF has its output JSON, named after its
\* base name, and the output of a failing document carries an error and an
\* empty outline.
C7_BatchVisitsEveryPdf ==
  MainEnded =>
    \A i \in DOMAIN listing :
      IsPdfName(listing[i].name) =>
        /\ OutputPath(listing[i].name) \in DOMAIN outputs
        /\ FailingPdf(i) =>
             /\ outputs[OutputPath(listing[i].name)].error # NoError
             /\ outputs[OutputPath(listing[i].name)].outline = <<>>

====
